---- MODULE Spec2Model ----
(***************************************************************************)
(* A model of the `repo info` subcommand (src/subcmds/info.py): Execute,   *)
(* the per-project report (printLocalInfo, localBranches,                  *)
(* findRemoteLocalDiff) and the cross-project overview (printOverview).    *)
(*                                                                         *)
(* Text is modelled as a sequence of one-character strings, so that        *)
(* split(), join(), replace(), strip(), "->" in line and string            *)
(* concatenation are computed as Python computes them.  The collaborators  *)
(* that are not part of info.py (GitCommand, GetProjects, GetBranches,     *)
(* GetUploadableBranch, branch.commits) answer nondeterministically from   *)
(* small sets at the moment info.py calls them.                            *)
(***************************************************************************)
EXTENDS Integers, Sequences, FiniteSets, TLC

VARIABLES
  pc,            \* position of the control flow inside Execute
  opt,           \* parsed options: overview, all, current_branch
  raised,        \* the exception that escaped Execute, or "none"
  out,           \* the printer calls made so far, in order
  projs,         \* the list GetProjects returned
  idx,           \* position of the `for p in projs` / `for project in ...` loop
  cmds,          \* findRemoteLocalDiff: the GitCommands of the current project
  fetched,       \* findRemoteLocalDiff: how `fetch --all` ended ("ok", "failed"), "" before
  remoteLines,   \* findRemoteLocalDiff: stdout lines of `branch -r`
  logTarget,     \* findRemoteLocalDiff: the comparison target, <<>> until chosen
  localCommits,  \* findRemoteLocalDiff: lines of `log <target>..`
  originCommits, \* findRemoteLocalDiff: lines of `log ..<target>`
  enum,          \* printOverview: per project, what the branch enumeration produced
  all,           \* printOverview: the collected sequence `all`
  pos,           \* printOverview: position of the `for branch in all` loop
  project,       \* printOverview: the `project` variable of the render loop (0 = None)
  commits,       \* printOverview: `commits` of the branch rendered last
  nlines         \* commit lines delivered so far by the collaborators

vars == <<pc, opt, raised, out, projs, idx, cmds, fetched, remoteLines, logTarget,
          localCommits, originCommits, enum, all, pos, project, commits, nlines>>

localVars == <<cmds, fetched, remoteLines, logTarget, localCommits, originCommits>>
overviewVars == <<enum, all, pos, project, commits>>

----------------------------------------------------------------------------
(* Bounds of the model *)

\* projects GetProjects may return
MaxProjects == 2
\* branches the branch enumerations of one run may produce in total
MaxBranches == 2
\* commit lines the log queries and branch.commits may deliver in one run
MaxCommitLines == 2

----------------------------------------------------------------------------
(* Sample inputs *)

Whitespace == {" "}

\* commit lines: two well-formed ones and a whitespace-only one
Lines == { <<"a", " ", "s">>, <<"b", " ", "t", " ", "u">>, <<" ">> }

\* stdout of `git branch -r`: none, one plain line, a symbolic-ref line second,
\* and a line holding the two marker characters in the wrong order
RemoteListings ==
  { <<>>,
    << <<"o", "/", "m">> >>,
    << <<"o", "/", "m">>, <<"o", "/", "H", " ", "-", ">", " ", "o", "/", "m">> >>,
    << <<">", "-">> >> }

\* stdout of `git branch`
BranchListings ==
  { << <<"*", " ", "m">>, <<" ", " ", "f">> >> }

RevisionExprs == { <<"m">>, <<"r", "/", "x">> }
BranchNames == {"f", "m"}
Dates == { "2023-01-01" }
ArgLists == { <<>>, << "p" >> }

Seqs(S, n) == UNION { [1..k -> S] : k \in 0..n }

Injective(s) == \A i, j \in 1..Len(s) : s[i] = s[j] => i = j

\* project objects: distinct ids; revisionExpr and CurrentBranch are attributes
ProjectLists(R, C) ==
  UNION { { [i \in 1..n |-> [id |-> i, revisionExpr |-> r[i], CurrentBranch |-> c[i]]]
            : r \in [1..n -> R], c \in [1..n -> C] } : n \in 0..MaxProjects }

----------------------------------------------------------------------------
(* Python's string operations *)

RECURSIVE SplitAcc(_, _, _)
SplitAcc(s, cur, acc) ==
  IF s = <<>> THEN (IF cur = <<>> THEN acc ELSE Append(acc, cur))
  ELSE IF Head(s) \in Whitespace
       THEN SplitAcc(Tail(s), <<>>, IF cur = <<>> THEN acc ELSE Append(acc, cur))
       ELSE SplitAcc(Tail(s), Append(cur, Head(s)), acc)

\* str.split(): the maximal runs of non-whitespace characters
split(s) == SplitAcc(s, <<>>, <<>>)

RECURSIVE join(_, _)
\* string.join(words, sep)
join(words, sep) ==
  IF words = <<>> THEN <<>>
  ELSE IF Len(words) = 1 THEN words[1]
  ELSE words[1] \o sep \o join(Tail(words), sep)

\* pat in line
Contains(line, pat) ==
  \E i \in 1..(Len(line) - Len(pat) + 1) : SubSeq(line, i, i + Len(pat) - 1) = pat

RECURSIVE lstrip(_)
lstrip(s) == IF s # <<>> /\ Head(s) \in Whitespace THEN lstrip(Tail(s)) ELSE s

RECURSIVE rstrip(_)
rstrip(s) ==
  IF s # <<>> /\ s[Len(s)] \in Whitespace THEN rstrip(SubSeq(s, 1, Len(s) - 1)) ELSE s

strip(s) == rstrip(lstrip(s))

ORIGIN == <<"o", "r", "i", "g", "i", "n", "/">>
DOTDOT == <<".", ".">>
ARROW  == <<"-", ">">>

----------------------------------------------------------------------------
(* Printer calls *)

Ev(k, v) == [k |-> k, v |-> v]
NL == Ev("nl", <<>>)

\* the sha and subject of one well-formed commit line
CommitLine(sp) ==
  << Ev("sha", sp[1] \o <<" ">>), Ev("text", join(Tail(sp), <<" ">>)), NL >>

RECURSIVE printDiffCommits(_)
\* for c in localCommits / originCommits: split, sha, text, nl
printDiffCommits(cs) ==
  IF cs = <<>> THEN [ev |-> <<>>, ok |-> TRUE]
  ELSE LET sp == split(Head(cs)) IN
       IF sp = <<>> THEN [ev |-> <<>>, ok |-> FALSE]
       ELSE LET rest == printDiffCommits(Tail(cs)) IN
            [ev |-> CommitLine(sp) \o rest.ev, ok |-> rest.ok]

RECURSIVE printOverviewCommits(_)
\* for commit in commits: split, indent, sha, text, nl
printOverviewCommits(cs) ==
  IF cs = <<>> THEN [ev |-> <<>>, ok |-> TRUE]
  ELSE LET sp == split(Head(cs)) IN
       IF sp = <<>> THEN [ev |-> << Ev("text", <<"indent">>) >>, ok |-> FALSE]
       ELSE LET rest == printOverviewCommits(Tail(cs)) IN
            [ev |-> << Ev("text", <<"indent">>) >> \o CommitLine(sp) \o rest.ev,
             ok |-> rest.ok]

----------------------------------------------------------------------------
Init ==
  /\ pc = "Execute"
  /\ opt \in [overview : BOOLEAN, all : BOOLEAN, current_branch : BOOLEAN]
  /\ raised = "none"
  /\ out = <<>>
  /\ projs = <<>>
  /\ idx = 0
  /\ cmds = <<>>
  /\ fetched = ""
  /\ remoteLines = <<>>
  /\ logTarget = <<>>
  /\ localCommits = <<>>
  /\ originCommits = <<>>
  /\ enum = <<>>
  /\ all = <<>>
  /\ pos = 0
  /\ project = 0
  /\ commits = <<>>
  /\ nlines = 0


----------------------------------------------------------------------------
(* Execute *)

\* the two manifest lines every report starts with
ManifestHeadings ==
  << Ev("heading", <<"Manifest branch: ">>), Ev("headtext", <<"manifest.revisionExpr">>), NL,
     Ev("heading", <<"Manifest merge branch: ">>), Ev("headtext", <<"mergeBranch">>), NL >>

Execute ==
  /\ pc = "Execute"
  /\ out' = ManifestHeadings
  /\ pc' = IF ~opt.overview THEN "printLocalInfo" ELSE "printOverview"
  /\ UNCHANGED <<opt, raised, projs, idx, nlines>>
  /\ UNCHANGED localVars
  /\ UNCHANGED overviewVars

----------------------------------------------------------------------------
(* printLocalInfo, localBranches *)

\* where the `for p in projs` loop goes after the project at position i
AfterProject(i) == IF i < Len(projs) THEN "project" ELSE "done"

\* line.replace('*', '')
removeStar(line) == SelectSeq(line, LAMBDA c : c # "*")

\* localBranches(project), given the stdout lines of `git branch`
localBranches(stdout) == [i \in 1..Len(stdout) |-> strip(removeStar(stdout[i]))]

\* try: projs = self.GetProjects(projects) / except NoSuchProjectError: return
printLocalInfo_GetProjects ==
  /\ pc = "printLocalInfo"
  /\ \E args \in ArgLists :
       LET projects == IF Len(args) > 0 THEN args ELSE << "." >> IN
       \/ /\ projects # <<>>
          /\ pc' = "done"
          /\ UNCHANGED <<projs, idx>>
       \/ \E ps \in ProjectLists(RevisionExprs, {"m"}) :
            /\ projs' = ps
            /\ idx' = 1
            /\ pc' = IF ps = <<>> THEN "done" ELSE "project"
  /\ UNCHANGED <<opt, raised, out, nlines>>
  /\ UNCHANGED localVars
  /\ UNCHANGED overviewVars

\* the body of `for p in projs` up to the call of findRemoteLocalDiff
printLocalInfo_Project ==
  /\ pc = "project"
  /\ \E stdout \in BranchListings :
       LET p  == projs[idx]
           lb == localBranches(stdout)
       IN out' = out \o
            << Ev("heading", <<"Project: ">>), Ev("headtext", <<"name", ToString(p.id)>>), NL,
               Ev("heading", <<"Mount path: ">>), Ev("headtext", <<"worktree", ToString(p.id)>>), NL,
               Ev("heading", <<"Current revision: ">>), Ev("headtext", p.revisionExpr), NL,
               Ev("heading", <<"Local Branches: ">>), Ev("redtext", <<ToString(Len(lb))>>),
               Ev("text", <<" [">>), Ev("text", join(lb, <<",", " ">>)), Ev("text", <<"]">>), NL >>
  /\ IF opt.all
       THEN /\ pc' = "fetch"
            /\ idx' = idx
       ELSE /\ pc' = AfterProject(idx)
            /\ idx' = idx + 1
  /\ cmds' = <<>>
  /\ fetched' = ""
  /\ remoteLines' = <<>>
  /\ logTarget' = <<>>
  /\ localCommits' = <<>>
  /\ originCommits' = <<>>
  /\ UNCHANGED <<opt, raised, projs, nlines>>
  /\ UNCHANGED overviewVars

----------------------------------------------------------------------------
(* findRemoteLocalDiff *)

\* GitCommand(project, [...]) starts the command
Issue(cmd, range) == Append(cmds, [cmd |-> cmd, range |-> range, st |-> "running"])
\* mutant of Await: the command is never waited for
Await_NotAwaited == cmds

\* gc.Wait() returns once the command has ended; the code never reads what it returns
Await == [cmds EXCEPT ![Len(cmds)].st = "done"]

\* mutant of isOnBranch: only the first line is tested
isOnBranch_FirstLineOnly(lines) == lines # <<>> /\ Contains(lines[1], ARROW)

\* for line in gc.stdout.splitlines(): if "->" in line: isOnBranch = True
isOnBranch(lines) == \E i \in 1..Len(lines) : Contains(lines[i], ARROW)

\* logTarget, chosen from isOnBranch
LogTarget(p, lines) ==
  IF isOnBranch(lines) THEN ORIGIN \o p.revisionExpr ELSE p.revisionExpr

\* the commit lines a log query may still deliver
Logs == Seqs(Lines, MaxCommitLines - nlines)

fetch_Issue ==
  /\ pc = "fetch"
  /\ cmds' = Issue("fetch --all", <<>>)
  /\ pc' = "fetch_wait"
  /\ UNCHANGED <<opt, raised, out, projs, idx, nlines>>
  /\ UNCHANGED <<fetched, remoteLines, logTarget, localCommits, originCommits>>
  /\ UNCHANGED overviewVars

fetch_Wait ==
  /\ pc = "fetch_wait"
  /\ \E rc \in {"ok", "failed"} :
       /\ cmds' = Await
       /\ fetched' = rc
  /\ pc' = "branch_r"
  /\ UNCHANGED <<opt, raised, out, projs, idx, nlines>>
  /\ UNCHANGED <<remoteLines, logTarget, localCommits, originCommits>>
  /\ UNCHANGED overviewVars

branch_Issue ==
  /\ pc = "branch_r"
  /\ cmds' = Issue("branch -r", <<>>)
  /\ pc' = "branch_r_wait"
  /\ UNCHANGED <<opt, raised, out, projs, idx, nlines>>
  /\ UNCHANGED <<fetched, remoteLines, logTarget, localCommits, originCommits>>
  /\ UNCHANGED overviewVars

\* gc.Wait(), the scan for "->" and the choice of logTarget
branch_Wait ==
  /\ pc = "branch_r_wait"
  /\ \E lines \in RemoteListings :
       /\ cmds' = Await
       /\ remoteLines' = lines
       /\ logTarget' = LogTarget(projs[idx], lines)
  /\ pc' = "log_local"
  /\ UNCHANGED <<opt, raised, out, projs, idx, nlines>>
  /\ UNCHANGED <<fetched, localCommits, originCommits>>
  /\ UNCHANGED overviewVars

logLocal_Issue ==
  /\ pc = "log_local"
  /\ cmds' = Issue("log --pretty=oneline", logTarget \o DOTDOT)
  /\ pc' = "log_local_wait"
  /\ UNCHANGED <<opt, raised, out, projs, idx, nlines>>
  /\ UNCHANGED <<fetched, remoteLines, logTarget, localCommits, originCommits>>
  /\ UNCHANGED overviewVars

logLocal_Wait ==
  /\ pc = "log_local_wait"
  /\ \E cs \in Logs :
       /\ cmds' = Await
       /\ localCommits' = cs
       /\ nlines' = nlines + Len(cs)
  /\ pc' = "log_remote"
  /\ UNCHANGED <<opt, raised, out, projs, idx>>
  /\ UNCHANGED <<fetched, remoteLines, logTarget, originCommits>>
  /\ UNCHANGED overviewVars

logRemote_Issue ==
  /\ pc = "log_remote"
  /\ cmds' = Issue("log --pretty=oneline", DOTDOT \o logTarget)
  /\ pc' = "log_remote_wait"
  /\ UNCHANGED <<opt, raised, out, projs, idx, nlines>>
  /\ UNCHANGED <<fetched, remoteLines, logTarget, localCommits, originCommits>>
  /\ UNCHANGED overviewVars

logRemote_Wait ==
  /\ pc = "log_remote_wait"
  /\ \E cs \in Logs :
       /\ cmds' = Await
       /\ originCommits' = cs
       /\ nlines' = nlines + Len(cs)
  /\ pc' = "render_diff"
  /\ UNCHANGED <<opt, raised, out, projs, idx>>
  /\ UNCHANGED <<fetched, remoteLines, logTarget, localCommits>>
  /\ UNCHANGED overviewVars

\* the divergence block as far as it gets printed: ev, and ok = no IndexError
printDiff(lc, oc) ==
  LET head1 == << Ev("heading", <<"Local Commits: ">>), Ev("redtext", <<ToString(Len(lc))>>),
                  Ev("dimtext", <<" (on current branch)">>), NL >>
      l     == printDiffCommits(lc)
      head2 == << Ev("text", <<"----------------------------">>), NL,
                  Ev("heading", <<"Remote Commits: ">>), Ev("redtext", <<ToString(Len(oc))>>), NL >>
      r     == printDiffCommits(oc)
  IN IF ~l.ok THEN [ev |-> head1 \o l.ev, ok |-> FALSE]
     ELSE [ev |-> head1 \o l.ev \o head2 \o r.ev, ok |-> r.ok]

\* the rest of findRemoteLocalDiff, and the return into the `for p in projs` loop
findRemoteLocalDiff_Render ==
  /\ pc = "render_diff"
  /\ LET d == printDiff(localCommits, originCommits) IN
       /\ out' = out \o d.ev
       /\ IF d.ok
            THEN /\ pc' = AfterProject(idx)
                 /\ idx' = idx + 1
                 /\ raised' = raised
            ELSE /\ pc' = "done"
                 /\ idx' = idx
                 /\ raised' = "IndexError"
  /\ UNCHANGED <<opt, projs, nlines>>
  /\ UNCHANGED localVars
  /\ UNCHANGED overviewVars

----------------------------------------------------------------------------
(* printOverview *)

\* what GetUploadableBranch returns for a branch with nothing to upload
None == [project |-> 0, name |-> ""]

RECURSIVE SumLen(_)
SumLen(ss) == IF ss = <<>> THEN 0 ELSE Len(Head(ss)) + SumLen(Tail(ss))

\* the orders in which GetBranches().keys() may still list branches
KeyLists == { s \in Seqs(BranchNames, MaxBranches - SumLen(enum)) : Injective(s) }

\* mutant of uploadable: the branches come out in the reverse of the order
\* in which keys() listed them
uploadable_Reversed(p, keys, ups) ==
  [i \in 1..Len(keys) |->
     IF keys[Len(keys) + 1 - i] \in ups
       THEN [project |-> p.id, name |-> keys[Len(keys) + 1 - i]] ELSE None]

\* br = [project.GetUploadableBranch(x) for x in project.GetBranches().keys()]
\* where GetUploadableBranch answers with a branch for the keys in ups
uploadable(p, keys, ups) ==
  [i \in 1..Len(keys) |->
     IF keys[i] \in ups THEN [project |-> p.id, name |-> keys[i]] ELSE None]

\* mutant of filterBranches: the current-branch restriction is not applied
filterBranches_Unrestricted(p, br, current_branch) ==
  SelectSeq(br, LAMBDA x : x # None)

\* br = [x for x in br if x]; if current_branch: br = [x ... if x.name == CurrentBranch]
filterBranches(p, br, current_branch) ==
  LET br1 == SelectSeq(br, LAMBDA x : x # None) IN
  IF current_branch
    THEN SelectSeq(br1, LAMBDA x : x.name = p.CurrentBranch)
    ELSE br1

\* all = [] / for project in self.GetProjects(args): NoSuchProjectError is not caught
printOverview_GetProjects ==
  /\ pc = "printOverview"
  /\ \E args \in ArgLists :
       \/ /\ args # <<>>   \* a name was given and GetProjects does not know it
          /\ raised' = "NoSuchProjectError"
          /\ pc' = "done"
          /\ UNCHANGED <<projs, idx>>
       \/ \E ps \in ProjectLists({ <<"m">> }, BranchNames) :
            /\ projs' = ps
            /\ idx' = 1
            /\ pc' = IF ps = <<>> THEN "overview_check" ELSE "collect"
            /\ raised' = raised
  /\ all' = <<>>
  /\ UNCHANGED <<opt, out, nlines, enum, pos, project, commits>>
  /\ UNCHANGED localVars

\* one pass of the loop body: enumerate, filter, all.extend(br)
printOverview_Collect ==
  /\ pc = "collect"
  /\ \E keys \in KeyLists :
       \E ups \in SUBSET { keys[i] : i \in 1..Len(keys) } :
         LET p  == projs[idx]
             br == uploadable(p, keys, ups)
         IN /\ all' = all \o filterBranches(p, br, opt.current_branch)
            /\ enum' = Append(enum, [i \in 1..Len(keys) |-> [name |-> keys[i], up |-> keys[i] \in ups]])
  /\ idx' = idx + 1
  /\ pc' = IF idx < Len(projs) THEN "collect" ELSE "overview_check"
  /\ UNCHANGED <<opt, raised, out, projs, nlines, pos, project, commits>>
  /\ UNCHANGED localVars

\* mutant of printOverview_Check: the early return is missing
printOverview_Check_NoReturn ==
  /\ pc = "overview_check"
  /\ out' = out \o << NL, Ev("heading", <<"Projects Overview">>) >>
  /\ pos' = 1
  /\ pc' = IF all = <<>> THEN "done" ELSE "render"
  /\ project' = 0
  /\ UNCHANGED <<opt, raised, projs, idx, nlines, enum, all, commits>>
  /\ UNCHANGED localVars

\* if not all: return / nl, heading, project = None
printOverview_Check ==
  /\ pc = "overview_check"
  /\ IF all = <<>>
       THEN /\ pc' = "done"
            /\ UNCHANGED <<out, pos, project>>
       ELSE /\ out' = out \o << NL, Ev("heading", <<"Projects Overview">>) >>
            /\ project' = 0
            /\ pos' = 1
            /\ pc' = "render"
  /\ UNCHANGED <<opt, raised, projs, idx, nlines, enum, all, commits>>
  /\ UNCHANGED localVars

\* branch.name == project.CurrentBranch and '*' or ' '
Marker(name, p) == IF name = p.CurrentBranch THEN "*" ELSE " "

\* len(commits) != 1 and 's' or ' '
Suffix(n) == IF n # 1 THEN "s" ELSE " "

\* '%s %-33s (%2d commit%s, %s)' % (...)
BranchLine(branch, p, cs, date) ==
  Ev("text", << "branch", Marker(branch.name, p), branch.name,
                ToString(Len(cs)), Suffix(Len(cs)), date >>)

\* if project != branch.project: project = branch.project; nl, headtext, nl
Header(prev, branch) ==
  IF prev # branch.project
    THEN << NL, Ev("headtext", <<"relpath", ToString(branch.project)>>), NL >>
    ELSE <<>>

\* one pass of `for branch in all`, given branch.commits and branch.date:
\* what gets printed (ev), and ok = no IndexError
printBranch(prev, branch, cs, date) ==
  LET c == printOverviewCommits(cs) IN
  [ev |-> Header(prev, branch) \o << BranchLine(branch, projs[branch.project], cs, date), NL >> \o c.ev,
   ok |-> c.ok]

printOverview_Branch ==
  /\ pc = "render"
  /\ \E cs \in Logs, date \in Dates :
       LET b == printBranch(project, all[pos], cs, date) IN
         /\ out' = out \o b.ev
         /\ commits' = cs
         /\ nlines' = nlines + Len(cs)
         /\ IF b.ok
              THEN /\ pc' = IF pos < Len(all) THEN "render" ELSE "done"
                   /\ pos' = pos + 1
                   /\ raised' = raised
              ELSE /\ pc' = "done"
                   /\ pos' = pos
                   /\ raised' = "IndexError"
  /\ project' = all[pos].project
  /\ UNCHANGED <<opt, projs, idx, enum, all>>
  /\ UNCHANGED localVars

----------------------------------------------------------------------------
NextLocal ==
  \/ Execute
  \/ printLocalInfo_GetProjects
  \/ printLocalInfo_Project
  \/ fetch_Issue
  \/ fetch_Wait
  \/ branch_Issue
  \/ branch_Wait
  \/ logLocal_Issue
  \/ logLocal_Wait
  \/ logRemote_Issue
  \/ logRemote_Wait
  \/ findRemoteLocalDiff_Render

NextOverview ==
  \/ Execute
  \/ printOverview_GetProjects
  \/ printOverview_Collect
  \/ printOverview_Check
  \/ printOverview_Branch

Next == NextLocal \/ NextOverview

\* every run of `repo info`
Spec == Init /\ [][Next]_vars

\* the runs without -o: the per-project report
InitLocal == Init /\ ~opt.overview
SpecLocal == InitLocal /\ [][NextLocal]_vars

\* the runs with -o: the overview
InitOverview == Init /\ opt.overview
SpecOverview == InitOverview /\ [][NextOverview]_vars

----------------------------------------------------------------------------
(* Reading the report *)

IsSha(e) == e.k = "sha"
IsDiffHeading(e) == e.k = "heading" /\ e.v = <<"Local Commits: ">>
IsRemoteHeading(e) == e.k = "heading" /\ e.v = <<"Remote Commits: ">>
IsOverviewHeading(e) == e.k = "heading" /\ e.v = <<"Projects Overview">>
IsHeader(e) == e.k = "headtext" /\ e.v[1] = "relpath"
IsBranchLine(e) == e.k = "text" /\ Len(e.v) = 6 /\ e.v[1] = "branch"

Where(P(_)) == { i \in 1..Len(out) : P(out[i]) }
Last(S) == IF S = {} THEN 0 ELSE CHOOSE i \in S : \A j \in S : j <= i

\* the sha printed on each commit line after position n of the report
ShasAfter(n) ==
  LET evs == SelectSeq(SubSeq(out, n + 1, Len(out)), IsSha)
  IN [i \in 1..Len(evs) |-> evs[i].v]

\* the sha a commit line shows: its first word and a space
ShaOf(line) == split(line)[1] \o <<" ">>
WellFormed(line) == \E i \in 1..Len(line) : line[i] # " "
ShasOf(cs) ==
  LET wf == SelectSeq(cs, WellFormed) IN [i \in 1..Len(wf) |-> ShaOf(wf[i])]

\* control is inside findRemoteLocalDiff, the queries of C1 issued or being issued
InQueries == pc \in {"fetch", "fetch_wait", "branch_r", "branch_r_wait", "log_local",
                     "log_local_wait", "log_remote", "log_remote_wait", "render_diff"}
\* findRemoteLocalDiff has been left for the project the local variables belong to
DiffEnded == pc \in {"project", "done"} /\ Len(cmds) = 4

----------------------------------------------------------------------------
(* Claims about findRemoteLocalDiff, checked under SpecLocal *)

\* "->" occurs in the line: a "-" directly followed by a ">"
HasArrow(line) == \E i \in 1..(Len(line) - 1) : line[i] = "-" /\ line[i + 1] = ">"

\* C1: once the remote-branch listing is in, both range queries use
\* "origin/" + revisionExpr when some listed line contains "->", and the bare
\* revisionExpr when no line does (zero lines included): the localOnly query is
\* "<target>..", the remoteOnly query is "..<target>", both are issued for
\* every listing, and no error has been raised when they have completed.
C1_ComparisonTarget ==
  LET rev    == projs[idx].revisionExpr
      marked == \E i \in 1..Len(remoteLines) : HasArrow(remoteLines[i])
      target == IF marked THEN <<"o", "r", "i", "g", "i", "n", "/">> \o rev ELSE rev
  IN /\ pc \in {"log_local_wait", "log_remote", "log_remote_wait", "render_diff"} =>
          /\ Len(cmds) >= 3
          /\ cmds[3].cmd = "log --pretty=oneline"
          /\ cmds[3].range = target \o <<".", ".">>
          /\ raised = "none"
     /\ pc \in {"log_remote_wait", "render_diff"} =>
          /\ Len(cmds) = 4
          /\ cmds[4].cmd = "log --pretty=oneline"
          /\ cmds[4].range = <<".", ".">> \o target

\* C1 witness: both range queries have completed for the second project of
\* the list, whose revision is "r/x" and whose listing holds a symbolic-ref line
C1_Witness ==
  /\ pc = "render_diff"
  /\ idx = 2
  /\ \E i \in 1..Len(remoteLines) : HasArrow(remoteLines[i])
  /\ cmds[4].st = "done"
  /\ projs[idx].revisionExpr = <<"r", "/", "x">>

\* C10: the queries of one project are issued in the order fetch, branch -r,
\* log <target>.., log ..<target>; a query is issued only when every earlier
\* one has been awaited; the target is chosen only after the listing has
\* completed; and nothing of the project's divergence block is printed while
\* a query is still to be issued or awaited.
C10_Sequential ==
  LET order == <<"fetch --all", "branch -r", "log --pretty=oneline", "log --pretty=oneline">>
      blocks == Cardinality(Where(IsDiffHeading))
  IN InQueries =>
       /\ Len(cmds) <= 4
       /\ \A i \in 1..Len(cmds) : cmds[i].cmd = order[i]
       /\ \A i \in 1..(Len(cmds) - 1) : cmds[i].st = "done"
       /\ logTarget # <<>> => (Len(cmds) >= 2 /\ cmds[2].st = "done")
       /\ Len(cmds) >= 3 => logTarget # <<>>
       /\ blocks = idx - 1
       /\ pc = "render_diff" => (Len(cmds) = 4 /\ cmds[4].st = "done")

\* C10 witness: all four queries of the second project have been awaited
C10_Witness ==
  /\ pc = "render_diff"
  /\ idx = 2
  /\ \A i \in 1..4 : cmds[i].st = "done"
  /\ Cardinality(Where(IsDiffHeading)) = 1

\* the divergence block of the project just left, printed in full
BlockComplete ==
  LET h == Last(Where(IsDiffHeading)) IN
  /\ h > 0
  /\ out[h + 1] = Ev("redtext", <<ToString(Len(localCommits))>>)
  /\ Last(Where(IsRemoteHeading)) > h
  /\ out[Last(Where(IsRemoteHeading)) + 1] = Ev("redtext", <<ToString(Len(originCommits))>>)
  /\ Len(ShasAfter(h)) = Len(localCommits) + Len(originCommits)

\* what findRemoteLocalDiff is to have done when it is left: the listing and
\* the two range queries issued, the whole divergence block printed, no exception
DiffReported ==
    /\ cmds[2].cmd = "branch -r" /\ cmds[3].range = logTarget \o DOTDOT
    /\ cmds[4].range = DOTDOT \o logTarget
    /\ BlockComplete
    /\ raised = "none"

\* C2: a failed fetch is not fatal: after it findRemoteLocalDiff issues the
\* same listing and the same two range queries as after a successful one,
\* prints the whole divergence block (both counts, every commit line) and
\* lets no exception surface.
C2_FetchNotFatal == (DiffEnded /\ fetched = "failed") => DiffReported

\* C2 restricted to logs whose every line has a hash, after either outcome of
\* the fetch: this much holds
C2_WhenLinesWellFormed ==
  ( /\ DiffEnded
    /\ \A i \in 1..Len(localCommits) : WellFormed(localCommits[i])
    /\ \A i \in 1..Len(originCommits) : WellFormed(originCommits[i]) )
  => (fetched \in {"ok", "failed"} /\ DiffReported)

----------------------------------------------------------------------------
(* Claims about printOverview, checked under SpecOverview *)

\* GetProjects has returned its list
Resolved == idx > 0

\* branch n of project i was enumerated, is uploadable and passes the
\* current-branch restriction when that is set
Survives(i, n) ==
  /\ i <= Len(enum)
  /\ \E j \in 1..Len(enum[i]) : enum[i][j].name = n /\ enum[i][j].up
  /\ opt.current_branch => n = projs[i].CurrentBranch

\* C3: `all` holds, once each, exactly the branches for which
\* GetUploadableBranch returned a non-empty value and, with the current-branch
\* restriction set, whose name equals their own project's CurrentBranch; it
\* holds no empty value.
C3_Collected ==
  /\ \A k \in 1..Len(all) : all[k] # None /\ all[k].project \in 1..Len(projs)
  /\ \A k, l \in 1..Len(all) : all[k] = all[l] => k = l
  /\ \A i \in 1..Len(projs), n \in BranchNames :
       (\E k \in 1..Len(all) : all[k].project = i /\ all[k].name = n) <=> Survives(i, n)

\* C3 witness: with the restriction set, a project enumerated two uploadable
\* branches and only its current one was collected
C3_Witness ==
  /\ pc = "overview_check"
  /\ opt.current_branch
  /\ Len(enum) = 1 /\ Len(enum[1]) = 2 /\ enum[1][1].up /\ enum[1][2].up
  /\ Len(all) = 1 /\ all[1].name = projs[1].CurrentBranch

\* where the branch enumeration of its project produced branch b
KeyPos(b) == CHOOSE j \in 1..Len(enum[b.project]) : enum[b.project][j].name = b.name

\* the branch lines of the report, in order
BranchLines == SelectSeq(out, IsBranchLine)
LastBranchLine == Last(Where(IsBranchLine))

\* C4: `all` lists the branches in input project order and, within a project,
\* in the order the enumeration produced them; the branch lines of the report
\* are the branches of `all` in that order, each under the header of its own
\* project, all of them when the report ends without error; the commit lines
\* under a branch are lines of its commit sequence, in that sequence's order.
C4_OrderPreserved ==
  LET lines   == Where(IsBranchLine)
      headers == Where(IsHeader)
      n       == Cardinality(lines)
      last    == Last(lines)
  IN
  /\ \A k \in 1..(Len(all) - 1) :
       \/ all[k].project < all[k + 1].project
       \/ all[k].project = all[k + 1].project /\ KeyPos(all[k]) < KeyPos(all[k + 1])
  /\ n <= Len(all)
  /\ \A i \in lines :
       LET k == Cardinality({ j \in lines : j <= i })
           h == Last({ j \in headers : j < i })
       IN /\ out[i].v[3] = all[k].name
          /\ h > 0 /\ out[h].v[2] = ToString(all[k].project)
  /\ (pc = "done" /\ Resolved /\ raised = "none") => n = Len(all)
  /\ last > 0 =>
       LET shown == ShasAfter(last)
       IN /\ Len(shown) <= Len(commits)
          /\ \A i \in 1..Len(shown) : shown[i] = ShaOf(commits[i])

\* C4 witness: a finished report of one project whose enumeration produced
\* "m" before "f", the second branch with two different commits
C4_Witness ==
  /\ pc = "done" /\ raised = "none"
  /\ Len(all) = 2 /\ all[1].project = all[2].project
  /\ all[1].name = "m" /\ all[2].name = "f"
  /\ Len(BranchLines) = 2
  /\ commits = << <<"b", " ", "t", " ", "u">>, <<"a", " ", "s">> >>
  /\ Len(ShasAfter(LastBranchLine)) = 2

\* C5: when GetProjects returned no project, or no branch survived the
\* filters, printOverview returns without an error and prints nothing: no
\* 'Projects Overview' heading, no project header, no branch line, no commit
\* line.
C5_NothingToReport ==
  all = <<>> =>
    /\ \A i \in 1..Len(out) :
         ~(IsOverviewHeading(out[i]) \/ IsHeader(out[i]) \/ IsBranchLine(out[i]) \/ IsSha(out[i]))
    /\ pc # "render"
    /\ (pc = "done" /\ Resolved) => (raised = "none" /\ out = ManifestHeadings)

\* C5 witness: two projects, two branches enumerated, none survived, and
\* printOverview has returned
C5_Witness ==
  /\ pc = "done"
  /\ Len(projs) = 2 /\ SumLen(enum) = 2
  /\ all = <<>>

\* the count and the suffix on the branch line printed last
CountShown == out[LastBranchLine].v[4]
SuffixShown == out[LastBranchLine].v[5]

\* C8: the count on a branch line is the length of the branch's commit
\* sequence and the number of commit lines printed beneath the line, and the
\* suffix is the singular one exactly when the count is 1.
C8_CountDisplayed ==
  LastBranchLine > 0 =>
    /\ CountShown = ToString(Len(commits))
    /\ SuffixShown # "s" <=> Len(commits) = 1
    /\ Len(ShasAfter(LastBranchLine)) = Len(commits)

\* the part of C8 that holds: count and suffix always, the number of commit
\* lines when no commit line lacks a hash
C8_CountAndSuffix ==
  LastBranchLine > 0 =>
    /\ CountShown = ToString(Len(commits))
    /\ SuffixShown # "s" <=> Len(commits) = 1
    /\ (\A i \in 1..Len(commits) : WellFormed(commits[i])) =>
         Len(ShasAfter(LastBranchLine)) = Len(commits)

\* the headers naming project i
HeadersOf(i) == { h \in Where(IsHeader) : out[h].v[2] = ToString(i) }

\* C9: a header is printed directly before the line of a branch exactly when
\* the branch is the first of `all` or its project differs from that of the
\* branch before it; when printOverview has ended, every project with a
\* surviving branch has exactly one header and every other project has none.
C9_Headers ==
  /\ \A i \in Where(IsBranchLine) :
       LET k == Cardinality({ j \in Where(IsBranchLine) : j <= i })
       IN IsHeader(out[i - 2]) <=> (k = 1 \/ all[k].project # all[k - 1].project)
  /\ (pc = "done" /\ Resolved) =>
       \A i \in 1..Len(projs) :
         Cardinality(HeadersOf(i)) =
           IF \E k \in 1..Len(all) : all[k].project = i THEN 1 ELSE 0

\* C9 when no IndexError was raised: it holds
C9_WhenNoError == raised = "none" => C9_Headers

----------------------------------------------------------------------------
(* Claims about both reports, checked under Spec *)

\* the log the block printed last was to show, and where that block starts
LastLog ==
  IF opt.overview THEN commits ELSE localCommits \o originCommits
LastBlock ==
  IF opt.overview THEN LastBranchLine ELSE Last(Where(IsDiffHeading))

\* C6: a commit line that is empty or whitespace-only is skipped: no
\* IndexError ends the report, the block holds a commit line for every other
\* line of its logs, and the projects and branches after it are reported.
C6_MalformedLineSkipped ==
  /\ raised # "IndexError"
  /\ (LastBlock > 0 /\ pc \in {"project", "render", "done"}) =>
       ShasAfter(LastBlock) = ShasOf(LastLog)
  /\ (pc = "done" /\ Resolved) =>
       (idx > Len(projs) /\ (opt.overview => Len(BranchLines) = Len(all)))

\* C7: when GetProjects raises NoSuchProjectError, in either report, nothing
\* beyond the manifest lines is printed and no exception escapes Execute.
C7_ResolutionFailureSkipped ==
  /\ raised # "NoSuchProjectError"
  /\ (pc = "done" /\ ~Resolved) => out = ManifestHeadings
====
